---- MODULE Spec2Model ----
(***************************************************************************)
(* A model of gmplot's documentation utilities (gmplot/utility.py) and of  *)
(* the text drawable (gmplot/drawables/text.py).                           *)
(*                                                                         *)
(* A Python string is a sequence of characters, each character a string of *)
(* length one; the backtick and the en dash, which cannot be written in a  *)
(* string literal, are the characters BQ and EN.  A Markdown document is a *)
(* sequence of lines, as file.readlines() returns it.                      *)
(***************************************************************************)
EXTENDS Integers, Sequences, FiniteSets, TLC

BQ == "backtick"
EN == "endash"
NL == "\n"

\* The characters Python's str.split() and str.isspace() take as whitespace.
WHITESPACE == {" ", "\n", "\t"}

(***************************************************************************)
(* Python's string methods.                                                *)
(***************************************************************************)
StartsWith(s, p) == Len(s) >= Len(p) /\ SubSeq(s, 1, Len(p)) = p

EndsWith(s, p) == Len(s) >= Len(p) /\ SubSeq(s, Len(s) - Len(p) + 1, Len(s)) = p

\* s[i:] for a 1-based first index i.
From(s, i) == SubSeq(s, i, Len(s))

\* str.find and str.rfind of one character, 1-based; 0 where Python gives -1.
Find(s, c) ==
    IF \E i \in 1..Len(s) : s[i] = c
    THEN CHOOSE i \in 1..Len(s) : s[i] = c /\ \A j \in 1..(i - 1) : s[j] # c
    ELSE 0

RFind(s, c) ==
    IF \E i \in 1..Len(s) : s[i] = c
    THEN CHOOSE i \in 1..Len(s) : s[i] = c /\ \A j \in (i + 1)..Len(s) : s[j] # c
    ELSE 0

\* The first place where sep occurs in s, 0 if it does not.
FindStr(s, sep) ==
    IF \E i \in 1..(Len(s) - Len(sep) + 1) : SubSeq(s, i, i + Len(sep) - 1) = sep
    THEN CHOOSE i \in 1..(Len(s) - Len(sep) + 1) :
            /\ SubSeq(s, i, i + Len(sep) - 1) = sep
            /\ \A j \in 1..(i - 1) : SubSeq(s, j, j + Len(sep) - 1) # sep
    ELSE 0

\* str.isspace(): at least one character, and all of them whitespace.
IsSpace(s) == s # <<>> /\ \A i \in 1..Len(s) : s[i] \in WHITESPACE

\* str.split(): the maximal runs of characters that are not whitespace.
RECURSIVE SplitWs(_)
SplitWs(s) ==
    IF s = <<>> THEN <<>>
    ELSE IF s[1] \in WHITESPACE THEN SplitWs(Tail(s))
    ELSE LET stop == IF \E i \in 1..Len(s) : s[i] \in WHITESPACE
                     THEN CHOOSE i \in 1..Len(s) :
                            s[i] \in WHITESPACE /\ \A j \in 1..(i - 1) : s[j] \notin WHITESPACE
                     ELSE Len(s) + 1
         IN  <<SubSeq(s, 1, stop - 1)>> \o SplitWs(From(s, stop))

\* str.split(sep) for a non-empty sep.
RECURSIVE Split(_, _)
Split(s, sep) ==
    LET i == FindStr(s, sep)
    IN  IF i = 0 THEN <<s>>
        ELSE <<SubSeq(s, 1, i - 1)>> \o Split(From(s, i + Len(sep)), sep)

\* sep.join(parts)
RECURSIVE Join(_, _)
Join(parts, sep) ==
    IF parts = <<>> THEN <<>>
    ELSE IF Len(parts) = 1 THEN parts[1]
    ELSE parts[1] \o sep \o Join(Tail(parts), sep)

\* str.replace(character, '') for one character.
Remove(s, c) == SelectSeq(s, LAMBDA x : x # c)

\* del lines[i:j+1] for 1-based i, j: Python deletes nothing from an empty slice.
DelRange(s, i, j) ==
    IF i > j THEN s ELSE SubSeq(s, 1, i - 1) \o SubSeq(s, j + 1, Len(s))

\* The values a Python call ends in: a value, None, or an exception.
Value(v) == [tag |-> "value", val |-> v]
None == [tag |-> "None", val |-> <<>>]
Raise(e) == [tag |-> e, val |-> <<>>]

(***************************************************************************)
(* _bookend                                                                *)
(***************************************************************************)
Bookend(string, fragment) ==
    IF string = <<>> THEN <<>>
    ELSE IF StartsWith(string, fragment) /\ EndsWith(string, fragment) THEN string
    ELSE fragment \o string \o fragment

(***************************************************************************)
(* _pretty_format_signature_header                                         *)
(***************************************************************************)
HEADER_CHARACTER == "#"

\* header_level[0] != '#' or header_level != len(header_level) * header_level[0]
BadHeaderLevel(header_level) ==
    \/ header_level[1] # HEADER_CHARACTER
    \/ \E i \in 1..Len(header_level) : header_level[i] # header_level[1]

\* A header rebuilt with its header level kept in front.
RebuildHeaderKeepsLevel(header_sections, parameters) ==
    LET full_name == header_sections[Len(header_sections)]
        last_period_index == RFind(full_name, ".")
    IN  IF last_period_index = 0 THEN None
        ELSE Value(header_sections[1] \o <<" ">>
                   \o SubSeq(full_name, 1, last_period_index - 1) \o <<".">>
                   \o Bookend(From(full_name, last_period_index + 1), <<"*", "*">>)
                   \o <<"(">> \o parameters \o <<")">>)

\* The header rebuilt from its whitespace-separated sections and its parameters.
RebuildHeader(header_sections, parameters) ==
    LET annotation == IF Len(header_sections) = 3 THEN header_sections[2] ELSE <<>>
        full_name  == header_sections[Len(header_sections)]
        prefix     == IF annotation # <<>>
                      THEN Bookend(annotation, <<"_">>) \o <<" ">>
                      ELSE <<>>
        last_period_index == RFind(full_name, ".")
    IN  IF last_period_index = 0 THEN None
        ELSE LET scope == SubSeq(full_name, 1, last_period_index - 1)
                 name  == Bookend(From(full_name, last_period_index + 1), <<"*", "*">>)
             IN  Value(prefix \o scope \o <<".">> \o name \o <<"(">> \o parameters \o <<")">>)

PrettyFormatSignatureHeader(signature_header) ==
    IF signature_header = <<>> THEN Raise("IndexError")
    ELSE IF signature_header[Len(signature_header)] # ")" THEN None
    ELSE LET trimmed == SubSeq(signature_header, 1, Len(signature_header) - 1)
             parenthesis_index == Find(trimmed, "(")
         IN  IF parenthesis_index = 0 THEN None
             ELSE LET parameters == Bookend(From(trimmed, parenthesis_index + 1), <<"_">>)
                      header_sections == SplitWs(SubSeq(trimmed, 1, parenthesis_index - 1))
                  IN  IF header_sections = <<>> THEN Raise("IndexError")
                      ELSE IF BadHeaderLevel(header_sections[1]) THEN None
                      ELSE IF Len(header_sections) \notin {2, 3} THEN None
                      ELSE RebuildHeader(header_sections, parameters)

(***************************************************************************)
(* _strip_character                                                        *)
(***************************************************************************)
\* A _strip_character that strips the escaped characters too.
StripCharacterAll(string, character) == Remove(string, character)

RECURSIVE MapRemove(_, _)
MapRemove(fragments, character) ==
    IF fragments = <<>> THEN <<>>
    ELSE <<Remove(fragments[1], character)>> \o MapRemove(Tail(fragments), character)

StripCharacter(string, character) ==
    LET escaped_character == <<"\\", character>>
    IN  Join(MapRemove(Split(string, escaped_character), character), escaped_character)

(***************************************************************************)
(* _pretty_format_markdown: the lines it looks for and the lines it writes *)
(***************************************************************************)
CODE_LITERAL_CHARACTER == <<BQ>>
OPTIONAL_LINE == <<"O", "p", "t", "i", "o", "n", "a", "l", ":", "\n">>
PARAMETERS_LINE == <<"*", " ", "*", "*", "P", "a", "r", "a", "m", "e", "t", "e", "r", "s", "*", "*", "\n">>
OPTIONAL_PARAMETERS_LINE == <<"*", " ", "*", "*", "O", "p", "t", "i", "o", "n", "a", "l", " ", "P", "a", "r", "a", "m", "e", "t", "e", "r", "s", "*", "*", "\n">>
RETURNS_LINE == <<"*", " ", "*", "*", "R", "e", "t", "u", "r", "n", "s", "*", "*", "\n">>
RETURN_TYPE_LINE == <<"*", " ", "*", "*", "R", "e", "t", "u", "r", "n", " ", "t", "y", "p", "e", "*", "*", "\n">>
RULE_LINE == <<"-", "-", "-", "\n">>
BLANK_LINE == <<"\n">>
OR_DELIMITER == <<" ", "o", "r", " ">>
DASH_DELIMITER == <<" ", EN, " ">>
CODE_BLOCK_SYMBOL == <<BQ, BQ, BQ>>
PYTHON_FENCE == CODE_BLOCK_SYMBOL \o <<"p", "y", "t", "h", "o", "n", "\n">>
HTML_FENCE == CODE_BLOCK_SYMBOL \o <<"h", "t", "m", "l", "\n">>
HTML_OUTPUT == <<"-", ">", " ", "<", "h", "t", "m", "l", ">">>
IMAGE_OPEN == <<"!", "[", "i", "m", "a", "g", "e", "]", "(">>
WIKI_URL == <<"h", "t", "t", "p", "s", ":", "/", "/", "g", "i", "t", "h", "u", "b", ".", "c", "o", "m", "/", "g", "m", "p", "l", "o", "t", "/", "g", "m", "p", "l", "o", "t", "/", "w", "i", "k", "i", "/">>
IMAGE_WIDTH == <<" ", "|", " ", "w", "i", "d", "t", "h", " ", "=", " ", "1", "0", "0", "0", "0", "0", "p", "x", "]", "]", "\n">>

\* What a stage of the pipeline ends in: the lines, whether it warned, whether
\* the file is skipped, and the exception it raised ("none" if it raised none).
StageResult(ls, warned, skipped, raised) ==
    [lines |-> ls, warned |-> warned, skipped |-> skipped, raised |-> raised]

(***************************************************************************)
(* Stage: the signature header and the rule below it.                      *)
(***************************************************************************)
HeaderStage(ls) ==
    LET first  == ls[1]
        header == PrettyFormatSignatureHeader(SubSeq(first, 1, Len(first) - 1))
    IN  IF header.tag = "value"
        THEN StageResult([ls EXCEPT ![1] = header.val \o <<NL>>], FALSE, FALSE, "none")
        ELSE IF header.tag = "None" THEN StageResult(ls, TRUE, TRUE, "none")
        ELSE StageResult(ls, FALSE, FALSE, header.tag)

RuleStage(ls) ==
    StageResult(<<ls[1], BLANK_LINE, RULE_LINE, BLANK_LINE>> \o Tail(ls), FALSE, FALSE, "none")

(***************************************************************************)
(* Stage: the 'Optional' header fused with the 'Parameters' header.        *)
(***************************************************************************)
FirstIndex(ls, line) ==
    IF \E i \in 1..Len(ls) : ls[i] = line
    THEN CHOOSE i \in 1..Len(ls) : ls[i] = line /\ \A j \in 1..(i - 1) : ls[j] # line
    ELSE 0

LastIndex(ls, line) ==
    IF \E i \in 1..Len(ls) : ls[i] = line
    THEN CHOOSE i \in 1..Len(ls) : ls[i] = line /\ \A j \in (i + 1)..Len(ls) : ls[j] # line
    ELSE 0

\* The for loop of one pass, from the line after the 'Optional' header on.
RECURSIVE ScanAfterOptional(_, _)
ScanAfterOptional(ls, index) ==
    IF index > Len(ls) THEN [index_parameters |-> 0, warned |-> FALSE]
    ELSE IF ls[index] = PARAMETERS_LINE THEN [index_parameters |-> index, warned |-> FALSE]
    ELSE IF ls[index] # BLANK_LINE THEN [index_parameters |-> 0, warned |-> TRUE]
    ELSE ScanAfterOptional(ls, index + 1)

RECURSIVE OptionalStage(_)
OptionalStage(ls) ==
    LET index_optional == FirstIndex(ls, OPTIONAL_LINE)
        scan == IF index_optional = 0
                THEN [index_parameters |-> 0, warned |-> FALSE]
                ELSE ScanAfterOptional(ls, index_optional + 1)
    IN  IF index_optional # 0 /\ scan.index_parameters # 0
        THEN OptionalStage(DelRange([ls EXCEPT ![index_optional] = OPTIONAL_PARAMETERS_LINE],
                                    index_optional + 1, scan.index_parameters))
        ELSE StageResult(ls, scan.warned, FALSE, "none")

(***************************************************************************)
(* Stage: the types of the parameter lines.                                *)
(***************************************************************************)
LeadingSpaces(line) ==
    IF \E i \in 1..Len(line) : line[i] # " "
    THEN (CHOOSE i \in 1..Len(line) : line[i] # " " /\ \A j \in 1..(i - 1) : line[j] = " ") - 1
    ELSE Len(line)

\* The places q of a ')' that ' – ' follows, after the '(' at p + 1.
TypeEnds(line, p) ==
    {q \in (p + 2)..(Len(line) - 3) :
        line[q] = ")" /\ SubSeq(line, q + 1, q + 3) = DASH_DELIMITER}

\* The places p of a ' ' that '(' follows and from which the rest of
\* _PARAMETER_REGEX matches.
TypeStarts(line) ==
    {p \in 1..(Len(line) - 1) : line[p] = " " /\ line[p + 1] = "(" /\ TypeEnds(line, p) # {}}

Min(S) == CHOOSE m \in S : \A n \in S : m <= n
Max(S) == CHOOSE m \in S : \A n \in S : m >= n

\* re.match(_PARAMETER_REGEX, line): ' *' is greedy and '.*?' lazy, so the
\* first ' (' after the first character that is no space is tried first, and
\* the ' (' that ends the leading spaces last; '.*' in the type is greedy.
ParameterMatch(line) ==
    LET k      == LeadingSpaces(line)
        starts == TypeStarts(line)
        later  == {p \in starts : p >= k + 2}
    IN  IF starts = {} THEN None
        ELSE LET p == IF later # {} THEN Min(later) ELSE Max(starts)
                 q == Max(TypeEnds(line, p))
             IN  Value(<<SubSeq(line, 1, p), SubSeq(line, p + 1, q), From(line, q + 1)>>)

RECURSIVE MapBookend(_, _)
MapBookend(parts, fragment) ==
    IF parts = <<>> THEN <<>>
    ELSE <<Bookend(parts[1], fragment)>> \o MapBookend(Tail(parts), fragment)

\* sections[1] of a parameter line, from the parenthesised type.
FormatType(section) ==
    LET unwrapped == SubSeq(section, 2, Len(section) - 1)
        stripped  == StripCharacter(unwrapped, "*")
    IN  Join(MapBookend(Split(stripped, OR_DELIMITER), CODE_LITERAL_CHARACTER), OR_DELIMITER)

FormatParameterLine(line) ==
    LET match == ParameterMatch(line)
    IN  IF match.tag = "None" THEN line
        ELSE match.val[1] \o FormatType(match.val[2]) \o match.val[3]

\* The loop over the lines.
RECURSIVE ParameterLoop(_)
ParameterLoop(ls) ==
    IF ls = <<>> THEN <<>> ELSE <<FormatParameterLine(ls[1])>> \o ParameterLoop(Tail(ls))

ParameterStage(ls) == StageResult(ParameterLoop(ls), FALSE, FALSE, "none")

(***************************************************************************)
(* Stage: the 'Return type' content merged with the 'Returns' content.     *)
(***************************************************************************)
\* re.match('( *)(.*)(\n)', line, flags=re.DOTALL): the leading spaces, the
\* text up to the last line break, and that line break; no match without one.
LineMatch(line) ==
    LET last_newline == RFind(line, NL)
        k == LeadingSpaces(line)
    IN  IF last_newline = 0 THEN None
        ELSE Value(<<SubSeq(line, 1, k), SubSeq(line, k + 1, last_newline - 1), <<NL>>>>)

\* The index of the 'Returns' content: the first line after the header that
\* is not blank, unless the 'Return type' header comes first; 0 for None.
RECURSIVE ReturnsContent(_, _)
ReturnsContent(ls, index) ==
    IF index > Len(ls) THEN 0
    ELSE IF ls[index] = RETURN_TYPE_LINE THEN 0
    ELSE IF ~IsSpace(ls[index]) THEN index
    ELSE ReturnsContent(ls, index + 1)

\* The index of the 'Return type' content; 0 for None.
RECURSIVE ReturnTypeContent(_, _)
ReturnTypeContent(ls, index) ==
    IF index > Len(ls) THEN 0
    ELSE IF ~IsSpace(ls[index]) THEN index
    ELSE ReturnTypeContent(ls, index + 1)

\* The branch taken when there is 'Returns' content.
MergeIntoReturns(ls, index_return_type_header, index_returns_content, index_return_type_content) ==
    LET type_match == LineMatch(ls[index_return_type_content])
        return_type == type_match.val[2]
        deleted == DelRange(ls, index_return_type_header, index_return_type_content)
    IN  IF type_match.tag = "None" THEN StageResult(ls, FALSE, FALSE, "AssertionError")
        ELSE IF index_returns_content > Len(deleted) THEN StageResult(ls, FALSE, FALSE, "IndexError")
        ELSE LET match == LineMatch(deleted[index_returns_content])
             IN  IF match.tag = "None" THEN StageResult(ls, FALSE, FALSE, "AssertionError")
                 ELSE StageResult(
                        [deleted EXCEPT ![index_returns_content] =
                            match.val[1]
                            \o Bookend(return_type, CODE_LITERAL_CHARACTER) \o DASH_DELIMITER
                            \o match.val[2] \o match.val[3]],
                        FALSE, FALSE, "none")

\* The branch taken when there is none.
KeepReturnType(ls, index_returns_header, index_return_type_header, index_return_type_content) ==
    LET match == LineMatch(ls[index_return_type_content])
    IN  IF match.tag = "None" THEN StageResult(ls, FALSE, FALSE, "AssertionError")
        ELSE StageResult(
                DelRange([ls EXCEPT ![index_return_type_content] =
                              match.val[1] \o Bookend(match.val[2], CODE_LITERAL_CHARACTER)
                              \o match.val[3]],
                         index_returns_header + 1, index_return_type_header),
                FALSE, FALSE, "none")

ReturnsStage(ls) ==
    LET index_returns_header == LastIndex(ls, RETURNS_LINE)
        index_return_type_header == LastIndex(ls, RETURN_TYPE_LINE)
    IN  IF index_return_type_header = 0 THEN StageResult(ls, FALSE, FALSE, "none")
        ELSE IF index_returns_header = 0 THEN StageResult(ls, FALSE, FALSE, "AssertionError")
        ELSE LET index_returns_content == ReturnsContent(ls, index_returns_header + 1)
                 index_return_type_content == ReturnTypeContent(ls, index_return_type_header + 1)
             IN  \* lines[None] raises TypeError
                 IF index_return_type_content = 0 THEN StageResult(ls, FALSE, FALSE, "TypeError")
                 ELSE IF index_returns_content # 0
                 THEN MergeIntoReturns(ls, index_return_type_header, index_returns_content,
                                       index_return_type_content)
                 ELSE KeepReturnType(ls, index_returns_header, index_return_type_header,
                                     index_return_type_content)

(***************************************************************************)
(* Stage: Python highlighting of the literal blocks.                       *)
(***************************************************************************)
\* A loop that tags every fence, the closing ones too.
RECURSIVE FenceLoopTagsAll(_, _, _)
FenceLoopTagsAll(ls, index, in_literal_block) ==
    IF index > Len(ls) THEN [lines |-> ls, in_literal_block |-> in_literal_block]
    ELSE IF StartsWith(ls[index], CODE_BLOCK_SYMBOL)
    THEN FenceLoopTagsAll([ls EXCEPT ![index] = PYTHON_FENCE], index + 1, ~in_literal_block)
    ELSE FenceLoopTagsAll(ls, index + 1, in_literal_block)

\* The loop from line index on: the lines and in_literal_block at its end.
RECURSIVE FenceLoop(_, _, _)
FenceLoop(ls, index, in_literal_block) ==
    IF index > Len(ls) THEN [lines |-> ls, in_literal_block |-> in_literal_block]
    ELSE IF StartsWith(ls[index], CODE_BLOCK_SYMBOL)
    THEN IF ~in_literal_block
         THEN FenceLoop([ls EXCEPT ![index] = PYTHON_FENCE], index + 1, TRUE)
         ELSE FenceLoop(ls, index + 1, FALSE)
    ELSE FenceLoop(ls, index + 1, in_literal_block)

FenceStage(ls) ==
    LET end == FenceLoop(ls, 1, FALSE)
    IN  StageResult(end.lines, end.in_literal_block, end.in_literal_block, "none")

(***************************************************************************)
(* Stage: HTML highlighting of the HTML output blocks.                     *)
(***************************************************************************)
\* The loop from line index on; it retags the line before an HTML output line.
RECURSIVE HtmlLoop(_, _)
HtmlLoop(ls, index) ==
    IF index > Len(ls) THEN ls
    ELSE IF /\ StartsWith(ls[index], HTML_OUTPUT)
            /\ index > 1
            /\ StartsWith(ls[index - 1], CODE_BLOCK_SYMBOL)
    THEN HtmlLoop([ls EXCEPT ![index - 1] = HTML_FENCE], index + 1)
    ELSE HtmlLoop(ls, index + 1)

HtmlStage(ls) == StageResult(HtmlLoop(ls, 1), FALSE, FALSE, "none")

(***************************************************************************)
(* Stage: embedded images.                                                 *)
(***************************************************************************)
\* re.match('!\[image]\((.*)\)', line, flags=re.DOTALL): the link runs to the
\* last ')' of the line.
ImageMatch(line) ==
    LET close == RFind(line, ")")
    IN  IF StartsWith(line, IMAGE_OPEN) /\ close > Len(IMAGE_OPEN)
        THEN Value(SubSeq(line, Len(IMAGE_OPEN) + 1, close - 1))
        ELSE None

AbsoluteLink(link) ==
    IF StartsWith(link, <<"\\">>) \/ StartsWith(link, <<".", "/">>)
    THEN WIKI_URL \o From(link, 2)
    ELSE link

FitImage(line) ==
    LET match == ImageMatch(line)
    IN  IF match.tag = "None" THEN line
        ELSE <<"[", "[">> \o AbsoluteLink(match.val) \o IMAGE_WIDTH

\* The loop over the lines.
RECURSIVE ImageLoop(_)
ImageLoop(ls) ==
    IF ls = <<>> THEN <<>> ELSE <<FitImage(ls[1])>> \o ImageLoop(Tail(ls))

ImageStage(ls) == StageResult(ImageLoop(ls), FALSE, FALSE, "none")

(***************************************************************************)
(* _pretty_format_markdown as a state machine: one step per stage of the   *)
(* loop body, over the files of the directory in os.listdir order.         *)
(*                                                                         *)
(*   files     the directory: per file, whether its name ends in '.md',    *)
(*             and its lines on disk                                       *)
(*   fileIdx   the file the for loop is at                                 *)
(*   pc        the stage the loop body is at                               *)
(*   lines     the local variable lines                                    *)
(*   warnings  the warnings issued, in order: the file and the stage       *)
(*   raised    the exception that ended the run, "none" if none did        *)
(*   orig, stageIn, done, written                                          *)
(*             history: the directory at the start, the lines the last     *)
(*             stage started from, the last stage, the files written       *)
(*   run       the call of the function this is: the first or the second   *)
(*   first     history: the directory and the files written at the end of  *)
(*             the first call                                              *)
(***************************************************************************)
VARIABLES files, fileIdx, pc, lines, warnings, raised, orig, stageIn, done, written,
          run, first

(***************************************************************************)
(* _GenerateDocFiles: the walk of the module's attributes.                 *)
(*                                                                         *)
(*   module    the attributes below the module, as a tree: per item its    *)
(*             parent (0 for the module itself), its name, whether it has  *)
(*             a docstring, and what inspect takes it for; an element's    *)
(*             __dict__ holds its items in the order of their numbers      *)
(*   stack     the calls of _recurse in progress: the element, the         *)
(*             ancestry and the items of the for loop still to come        *)
(*   stubs     the Sphinx source files written, in order                   *)
(*   sidebar   the calls of _write_to_sidebar, in order, each with the     *)
(*             text it wrote to the _Sidebar file                          *)
(*   unsupported  the items warned about                                   *)
(*   visited   the items the for loops have come to, in order              *)
(*   wpc       where the functor is: constructed, running or returned      *)
(***************************************************************************)
VARIABLES module, stack, stubs, sidebar, unsupported, visited, wpc

(***************************************************************************)
(* _Text: the drawable and the calls write() makes on the writer.          *)
(*                                                                         *)
(*   self      the _Text object, once constructed                          *)
(*   calls     the calls made on the writer w, in order                    *)
(*   tpc       the line of the statement write() is at                     *)
(***************************************************************************)
VARIABLES self, calls, tpc

mdVars == <<files, fileIdx, pc, lines, warnings, raised, orig, stageIn, done, written,
            run, first>>
walkVars == <<module, stack, stubs, sidebar, unsupported, visited, wpc>>
textVars == <<self, calls, tpc>>
vars == <<mdVars, walkVars, textVars>>

\* The parts of the state a run of another function leaves alone.
IdleMarkdown ==
    /\ files = <<>> /\ orig = <<>> /\ fileIdx = 1 /\ pc = "idle" /\ lines = <<>>
    /\ warnings = <<>> /\ raised = "none" /\ stageIn = <<>> /\ done = "none"
    /\ written = {} /\ run = 0 /\ first = <<>>
IdleWalk ==
    /\ module = <<>> /\ stack = <<>> /\ stubs = <<>> /\ sidebar = <<>> /\ unsupported = <<>>
    /\ visited = <<>> /\ wpc = "idle"
IdleText ==
    /\ self = <<>> /\ calls = <<>> /\ tpc = 0

File(md, content) == [md |-> md, content |-> content]

InitMarkdown(directories) ==
    /\ files \in directories
    /\ orig = files
    /\ fileIdx = 1
    /\ pc = "read"
    /\ lines = <<>>
    /\ warnings = <<>>
    /\ raised = "none"
    /\ stageIn = <<>>
    /\ done = "none"
    /\ written = {}
    /\ run = 1
    /\ first = <<>>
    /\ IdleWalk
    /\ IdleText

\* for filename in os.listdir(directory): the next file is read, unless it is
\* no Markdown file or has no content.
ReadFile ==
    /\ pc = "read"
    /\ fileIdx <= Len(files)
    /\ done' = "read"
    /\ IF files[fileIdx].md /\ files[fileIdx].content # <<>>
       THEN /\ lines' = files[fileIdx].content
            /\ pc' = "header"
            /\ UNCHANGED fileIdx
       ELSE /\ fileIdx' = fileIdx + 1
            /\ UNCHANGED <<lines, pc>>
    /\ UNCHANGED <<files, warnings, raised, orig, stageIn, written>>

\* The loop is over: the function returns.
Return ==
    /\ pc = "read"
    /\ fileIdx > Len(files)
    /\ pc' = "done"
    /\ done' = "return"
    /\ UNCHANGED <<files, fileIdx, lines, warnings, raised, orig, stageIn, written>>

\* One stage of the loop body: it raises, or warns and goes on to the next
\* file (continue), or goes on to the next stage.
Stage(at, next, result) ==
    /\ pc = at
    /\ stageIn' = lines
    /\ done' = at
    /\ lines' = result.lines
    /\ raised' = result.raised
    /\ warnings' = IF result.warned
                   THEN Append(warnings, [file |-> fileIdx, stage |-> at])
                   ELSE warnings
    /\ pc' = IF result.raised # "none" THEN "raised"
             ELSE IF result.skipped THEN "read"
             ELSE next
    /\ fileIdx' = IF result.raised = "none" /\ result.skipped THEN fileIdx + 1 ELSE fileIdx
    /\ UNCHANGED <<files, orig, written>>

FormatHeader == Stage("header", "rule", HeaderStage(lines))
InsertRule == Stage("rule", "optional", RuleStage(lines))
FuseOptional == Stage("optional", "parameters", OptionalStage(lines))
FormatParameters == Stage("parameters", "returns", ParameterStage(lines))
MergeReturns == Stage("returns", "fence", ReturnsStage(lines))
TagFences == Stage("fence", "html", FenceStage(lines))
TagHtml == Stage("html", "image", HtmlStage(lines))
FitImages == Stage("image", "write", ImageStage(lines))

\* file.writelines(lines)
UpdateFile ==
    /\ pc = "write"
    /\ files' = [files EXCEPT ![fileIdx].content = lines]
    /\ written' = written \cup {fileIdx}
    /\ fileIdx' = fileIdx + 1
    /\ pc' = "read"
    /\ done' = "write"
    /\ UNCHANGED <<lines, warnings, raised, orig, stageIn>>

NextMarkdown ==
    /\ \/ ReadFile
       \/ FormatHeader
       \/ InsertRule
       \/ FuseOptional
       \/ FormatParameters
       \/ MergeReturns
       \/ TagFences
       \/ TagHtml
       \/ FitImages
       \/ UpdateFile
       \/ Return
    /\ UNCHANGED <<walkVars, textVars, run, first>>

(***************************************************************************)
(* The documents the stages are run on.                                    *)
(***************************************************************************)
\* All sequences of at most n elements of S.
RECURSIVE SeqsUpTo(_, _)
SeqsUpTo(S, n) ==
    IF n = 0 THEN {<<>>}
    ELSE LET shorter == SeqsUpTo(S, n - 1)
         IN  shorter \cup {Append(q, e) : q \in {r \in shorter : Len(r) = n - 1}, e \in S}

\* The concatenation of a sequence of strings.
RECURSIVE Concat(_)
Concat(parts) == IF parts = <<>> THEN <<>> ELSE parts[1] \o Concat(Tail(parts))

\* '# m.f(a)': a well-formed signature header, and a line of plain text.
GOOD_HEADER == <<"#", " ", "m", ".", "f", "(", "a", ")", "\n">>
TEXT_LINE == <<"A", ".", "\n">>
GOOD_FILE == File(TRUE, <<GOOD_HEADER, TEXT_LINE>>)

\* A directory of two files: a document with the given body under a
\* well-formed header, and a second document after it.
BodyDirectories(bodies, second) ==
    {<<File(TRUE, <<GOOD_HEADER>> \o body), second>> : body \in bodies}

(***************************************************************************)
(* The code-fence stage, over documents of fences, text and HTML output.   *)
(***************************************************************************)
MaxFenceLines == 4
BARE_FENCE == CODE_BLOCK_SYMBOL \o <<NL>>
TAGGED_FENCE == CODE_BLOCK_SYMBOL \o <<"j", "s", NL>>
FENCE_LINES == {BARE_FENCE, TAGGED_FENCE, TEXT_LINE, HTML_OUTPUT \o <<NL>>}
FENCED_FILE == File(TRUE, <<GOOD_HEADER, TAGGED_FENCE, TEXT_LINE, BARE_FENCE>>)

InitFence == InitMarkdown(BodyDirectories(SeqsUpTo(FENCE_LINES, MaxFenceLines), FENCED_FILE))
SpecFence == InitFence /\ [][NextMarkdown]_vars

IsFence(line) == StartsWith(line, CODE_BLOCK_SYMBOL)
\* The fences among the first i lines; the i-th line opens a block when it is
\* an odd-numbered fence.
FencesUpTo(ls, i) == Cardinality({j \in 1..i : IsFence(ls[j])})
IsOpeningFence(ls, i) == IsFence(ls[i]) /\ FencesUpTo(ls, i) % 2 = 1
AllFencesClosed(ls) == FencesUpTo(ls, Len(ls)) % 2 = 0
Warned(file, stage) == \E k \in 1..Len(warnings) : warnings[k] = [file |-> file, stage |-> stage]

\* C3: in the code-fence stage the lines starting with ``` alternately open
\* and close a block.  When every fence is closed, each opening fence leaves
\* the stage as '```python' and every other line is unchanged; when a fence
\* is still open at the end of the file, a warning is issued, the file is
\* never written (on disk it stays as it was) and the loop goes on.
C3_FenceTagging ==
    /\ done = "fence" =>
         IF AllFencesClosed(stageIn)
         THEN /\ pc = "html" /\ raised = "none"
              /\ ~Warned(fileIdx, "fence")
              /\ Len(lines) = Len(stageIn)
              /\ \A i \in 1..Len(stageIn) :
                    lines[i] = IF IsOpeningFence(stageIn, i) THEN PYTHON_FENCE ELSE stageIn[i]
         ELSE /\ pc = "read" /\ raised = "none"
              /\ warnings # <<>>
              /\ warnings[Len(warnings)] = [file |-> fileIdx - 1, stage |-> "fence"]
    /\ \A f \in 1..Len(files) :
         Warned(f, "fence") => files[f] = orig[f] /\ f \notin written

\* The run is over: the first file had an open fence and is as it was, the
\* second had its tagged opening fence retagged and its closing fence kept.
C3_Witness ==
    /\ pc = "done"
    /\ Warned(1, "fence") /\ files[1] = orig[1] /\ ~AllFencesClosed(orig[1].content)
    /\ 2 \in written
    /\ files[2].content[5] = PYTHON_FENCE /\ orig[2].content[2] = TAGGED_FENCE
    /\ files[2].content[7] = BARE_FENCE

(***************************************************************************)
(* The optional-parameters stage, over documents of 'Optional:' lines,     *)
(* 'Parameters' headers, blank lines and text.                             *)
(***************************************************************************)
MaxOptionalLines == 5
OPTIONAL_LINES ==
    {OPTIONAL_LINE, PARAMETERS_LINE, BLANK_LINE, TEXT_LINE, OPTIONAL_PARAMETERS_LINE}

InitOptional ==
    InitMarkdown(BodyDirectories(SeqsUpTo(OPTIONAL_LINES, MaxOptionalLines), GOOD_FILE))
SpecOptional == InitOptional /\ [][NextMarkdown]_vars

\* Line i is an 'Optional:' line that a 'Parameters' header follows at j,
\* after blank lines only.
IsPair(ls, i, j) ==
    /\ i < j /\ ls[i] = OPTIONAL_LINE /\ ls[j] = PARAMETERS_LINE
    /\ \A k \in (i + 1)..(j - 1) : ls[k] = BLANK_LINE
StartsPair(ls, i) == \E j \in (i + 1)..Len(ls) : IsPair(ls, i, j)
Pairs(ls) == {i \in 1..Len(ls) : StartsPair(ls, i)}
Count(ls, line) == Cardinality({i \in 1..Len(ls) : ls[i] = line})

\* The first 'Optional:' line that starts no pair; Len(ls) + 1 if there is none.
FirstUnpaired(ls) ==
    Min({i \in 1..Len(ls) : ls[i] = OPTIONAL_LINE /\ ~StartsPair(ls, i)} \cup {Len(ls) + 1})

\* out is ls with the pairs that start before line stop fused: the 'Optional:'
\* line of each replaced by the 'Optional Parameters' header, the lines after
\* it up to its 'Parameters' header deleted, every other line kept.
FusedBefore(ls, stop, out) ==
    LET fused == {i \in Pairs(ls) : i < stop}
        kept  == {k \in 1..Len(ls) : ~\E i \in fused, j \in 1..Len(ls) :
                                        IsPair(ls, i, j) /\ i < k /\ k <= j}
        rank(k) == Cardinality({m \in kept : m <= k})
    IN  /\ Len(out) = Cardinality(kept)
        /\ \A k \in kept :
              out[rank(k)] = IF k \in fused THEN OPTIONAL_PARAMETERS_LINE ELSE ls[k]

\* C6 (as claimed): after the fusion loop every pair of the document is fused,
\* with one 'Optional Parameters' header for each, and none is left.
C6_EveryPairFused ==
    done = "optional" =>
        /\ FusedBefore(stageIn, Len(stageIn) + 1, lines)
        /\ Pairs(lines) = {}
        /\ Count(lines, OPTIONAL_PARAMETERS_LINE) =
              Count(stageIn, OPTIONAL_PARAMETERS_LINE) + Cardinality(Pairs(stageIn))

\* What the loop does: it fuses the pairs in document order and stops at the
\* first 'Optional:' line that starts no pair.  The pairs before that line are
\* fused, one 'Optional Parameters' header for each; the pairs after it are
\* left as they were.  A warning is issued when that line is followed by a
\* line that is not blank, and the file is processed further all the same.
C6_PairsFusedUpToUnpaired ==
    done = "optional" =>
        LET stop == FirstUnpaired(stageIn)
            before == {i \in Pairs(stageIn) : i < stop}
        IN  /\ FusedBefore(stageIn, stop, lines)
            /\ Count(lines, OPTIONAL_PARAMETERS_LINE) =
                  Count(stageIn, OPTIONAL_PARAMETERS_LINE) + Cardinality(before)
            /\ Cardinality(Pairs(lines)) = Cardinality(Pairs(stageIn)) - Cardinality(before)
            /\ stop > Len(stageIn) => Pairs(lines) = {}
            /\ Warned(fileIdx, "optional") <=>
                  \E k \in (stop + 1)..Len(stageIn) : stageIn[k] # BLANK_LINE
            /\ pc = "parameters" /\ raised = "none"

\* A document with two pairs, the first with a blank line in it: both are fused.
C6_Witness ==
    /\ done = "optional"
    /\ Cardinality(Pairs(stageIn)) = 2
    /\ \E i \in Pairs(stageIn) : stageIn[i + 1] = BLANK_LINE
    /\ Count(lines, OPTIONAL_PARAMETERS_LINE) = 2
    /\ Pairs(lines) = {}

(***************************************************************************)
(* The parameter-line stage, over lines '<prefix> (<type>) – <description>'*)
(* whose type is made of a few tokens.                                     *)
(***************************************************************************)
MaxTypeTokens == 3
TYPE_TOKENS == {<<"*">>, <<"\\">>, <<"i">>, <<BQ>>, OR_DELIMITER,
                <<")">> \o DASH_DELIMITER, <<" ", "(">>}
PARAMETER_PREFIXES == {<<>>, <<"*", "x">>}
PARAMETER_DESCRIPTIONS == {<<>>, <<"A">>}
EXAMPLE_PARAMETER == <<" ", " ", "*", " ", "*", "*", "x", "*", "*", " ", "(", "*", "i", "n", "t", "*", " ", "o", "r", " ", "*", "s", "t", "r", "*", ")", " ", EN, " ", "A", " ", "v", "a", "l", "u", "e", ".", "\n">>
EXAMPLE_FORMATTED == <<" ", " ", "*", " ", "*", "*", "x", "*", "*", " ", BQ, "i", "n", "t", BQ, " ", "o", "r", " ", BQ, "s", "t", "r", BQ, " ", EN, " ", "A", " ", "v", "a", "l", "u", "e", ".", "\n">>
EXAMPLE_CLAIMED == <<" ", " ", "*", " ", "*", "*", "x", "*", "*", " ", "(", BQ, "i", "n", "t", BQ, " ", "o", "r", " ", BQ, "s", "t", "r", BQ, ")", " ", EN, " ", "A", " ", "v", "a", "l", "u", "e", ".", "\n">>
NO_PARAMETER == <<"(", "i", ")">> \o DASH_DELIMITER \o <<"A", NL>>

PARAMETER_LINES ==
    {prefix \o <<" ", "(">> \o Concat(tokens) \o <<")">> \o DASH_DELIMITER \o description \o <<NL>> :
        prefix \in PARAMETER_PREFIXES,
        tokens \in SeqsUpTo(TYPE_TOKENS, MaxTypeTokens),
        description \in PARAMETER_DESCRIPTIONS}
    \cup {EXAMPLE_PARAMETER, NO_PARAMETER, TEXT_LINE}

InitParameters ==
    InitMarkdown(BodyDirectories({<<line>> : line \in PARAMETER_LINES}, GOOD_FILE))
SpecParameters == InitParameters /\ [][NextMarkdown]_vars

\* The characters of s at the places in keep, in order.
RECURSIVE Restrict(_, _, _)
Restrict(s, keep, i) ==
    IF i > Len(s) THEN <<>>
    ELSE (IF i \in keep THEN <<s[i]>> ELSE <<>>) \o Restrict(s, keep, i + 1)

\* An asterisk is escaped when a backslash stands before it.
Escaped(s, i) == s[i] = "*" /\ i > 1 /\ s[i - 1] = "\\"
Unescaped(s, i) == s[i] = "*" /\ ~Escaped(s, i)
WithoutUnescaped(s) == Restrict(s, {i \in 1..Len(s) : ~Unescaped(s, i)}, 1)

Wrapped(alternative) == <<BQ>> \o alternative \o <<BQ>>
IsBookended(alternative) == alternative # <<>> /\ Head(alternative) = BQ
                            /\ alternative[Len(alternative)] = BQ

\* The type expression of a line that the stage takes for a parameter line.
TypeExpression(line) ==
    LET section == ParameterMatch(line).val[2] IN SubSeq(section, 2, Len(section) - 1)

\* Every alternative wrapped in backticks; when lenient, an alternative that
\* is empty or already bookended by backticks is left as it is.
RECURSIVE WrapEach(_, _)
WrapEach(alternatives, lenient) ==
    IF alternatives = <<>> THEN <<>>
    ELSE <<IF lenient /\ (alternatives[1] = <<>> \/ IsBookended(alternatives[1]))
           THEN alternatives[1]
           ELSE Wrapped(alternatives[1])>> \o WrapEach(Tail(alternatives), lenient)

FormattedType(type, lenient) ==
    Join(WrapEach(Split(WithoutUnescaped(type), OR_DELIMITER), lenient), OR_DELIMITER)

\* C7 (as claimed): a parameter line '<prefix> (<type>) – <description>' leaves
\* the stage as '<prefix> (<T1> or ... or <Tn>) – <description>', the
\* parentheses kept, the unescaped asterisks of the type removed, the escaped
\* ones kept, and each alternative wrapped in backticks; every other line is
\* unchanged.
C7_ParenthesesKept ==
    done = "parameters" =>
        /\ Len(lines) = Len(stageIn)
        /\ \A i \in 1..Len(stageIn) :
              LET match == ParameterMatch(stageIn[i])
              IN  IF match.tag = "None" THEN lines[i] = stageIn[i]
                  ELSE /\ lines[i] = match.val[1] \o <<"(">>
                                     \o FormattedType(TypeExpression(stageIn[i]), FALSE)
                                     \o <<")">> \o match.val[3]
                       /\ stageIn[i] = EXAMPLE_PARAMETER => lines[i] = EXAMPLE_CLAIMED

\* C7 (amended): a parameter line '<prefix> (<type>) – <description>' leaves
\* the stage as '<prefix> <T1> or ... or <Tn> – <description>': the prefix and
\* the description are unchanged, the parentheses around the type are removed,
\* every asterisk of the type that no backslash precedes is removed and every
\* asterisk that a backslash precedes is kept, and each ' or '-separated
\* alternative is wrapped in backticks unless it is empty or already begins
\* and ends with a backtick; every other line is unchanged.  In particular
\* '  * **x** (*int* or *str*) – A value.' becomes
\* '  * **x** `int` or `str` – A value.'.
C7_TypeFormatted ==
    done = "parameters" =>
        /\ Len(lines) = Len(stageIn)
        /\ pc = "returns" /\ raised = "none"
        /\ \A i \in 1..Len(stageIn) :
              LET match == ParameterMatch(stageIn[i])
              IN  IF match.tag = "None" THEN lines[i] = stageIn[i]
                  ELSE /\ lines[i] = match.val[1]
                                     \o FormattedType(TypeExpression(stageIn[i]), TRUE)
                                     \o match.val[3]
                       /\ stageIn[i] = EXAMPLE_PARAMETER => lines[i] = EXAMPLE_FORMATTED

\* A parameter line whose type holds an escaped and an unescaped asterisk:
\* only the escaped one is left, and the type is wrapped.
C7_Witness ==
    /\ done = "parameters"
    /\ \E i \in 1..Len(stageIn) :
          /\ ParameterMatch(stageIn[i]).tag = "value"
          /\ LET type == TypeExpression(stageIn[i])
             IN  /\ \E j \in 1..Len(type) : Escaped(type, j)
                 /\ \E j \in 1..Len(type) : Unescaped(type, j)
                 /\ lines[i] = ParameterMatch(stageIn[i]).val[1]
                               \o <<BQ, "\\", "*", BQ>> \o ParameterMatch(stageIn[i]).val[3]

(***************************************************************************)
(* The header stage, over every first line of a few characters.            *)
(***************************************************************************)
MaxHeaderLen == 5
HEADER_CHARS == {"#", " ", "m", ".", "(", ")"}

HeaderDirectories ==
    {<<File(TRUE, <<header \o <<NL>>, TEXT_LINE>>), GOOD_FILE>> :
        header \in SeqsUpTo(HEADER_CHARS, MaxHeaderLen)}

InitHeader == InitMarkdown(HeaderDirectories)
SpecHeader == InitHeader /\ [][NextMarkdown]_vars

\* A well-formed signature header: '<#-run> [annotation] <scope>.<name>(<params>)'.
WellFormedHeader(header) ==
    /\ header # <<>> /\ header[Len(header)] = ")"
    /\ Find(header, "(") # 0
    /\ LET sections == SplitWs(SubSeq(header, 1, Find(header, "(") - 1))
       IN  /\ Len(sections) \in {2, 3}
           /\ \A i \in 1..Len(sections[1]) : sections[1][i] = "#"
           /\ Find(sections[Len(sections)], ".") # 0

FirstLineHeader(ls) == SubSeq(ls[1], 1, Len(ls[1]) - 1)

\* C2 (as claimed): for every first line that is no well-formed signature
\* header, the header stage raises nothing, warns, goes on to the next file,
\* and the file stays on disk as it was.
C2_MalformedHeaderWarns ==
    /\ done = "header" /\ ~WellFormedHeader(FirstLineHeader(stageIn)) =>
         /\ raised = "none" /\ pc = "read"
         /\ Warned(fileIdx - 1, "header")
    /\ \A f \in 1..Len(files) : Warned(f, "header") => files[f] = orig[f]
    /\ pc = "done" => 2 \in written

(***************************************************************************)
(* The return-fusion stage, over documents of 'Returns' and 'Return type'  *)
(* headers, blank lines, text and type lines; the last line of a document  *)
(* may lack its line break.                                                *)
(***************************************************************************)
MaxReturnLines == 5
INDENTED_TYPE == <<" ", "i", NL>>
LITERAL_TYPE == <<BQ, "i", BQ, NL>>
UNTERMINATED_TYPE == <<"i">>
RETURN_LINES ==
    {RETURNS_LINE, RETURN_TYPE_LINE, BLANK_LINE, TEXT_LINE, INDENTED_TYPE, LITERAL_TYPE}

ReturnBodies ==
    SeqsUpTo(RETURN_LINES, MaxReturnLines)
    \cup {Append(body, UNTERMINATED_TYPE) : body \in SeqsUpTo(RETURN_LINES, MaxReturnLines - 1)}

InitReturns == InitMarkdown(BodyDirectories(ReturnBodies, GOOD_FILE))
SpecReturns == InitReturns /\ [][NextMarkdown]_vars

\* The one line of ls equal to line; 0 unless there is exactly one.
TheLine(ls, line) ==
    IF Count(ls, line) = 1 THEN CHOOSE i \in 1..Len(ls) : ls[i] = line ELSE 0

\* The first line below line i that is not blank; 0 if there is none.
Beneath(ls, i) ==
    LET below == {k \in (i + 1)..Len(ls) : ~IsSpace(ls[k])}
    IN  IF below = {} THEN 0 ELSE Min(below)

IsHeader(line) == line \in {RETURNS_LINE, RETURN_TYPE_LINE}

\* A line as its indentation, its text and its line ending (if it has one).
Indentation(line) == SubSeq(line, 1, LeadingSpaces(line))
LineEnding(line) == IF line # <<>> /\ line[Len(line)] = NL THEN <<NL>> ELSE <<>>
Text(line) == SubSeq(line, LeadingSpaces(line) + 1, Len(line) - Len(LineEnding(line)))

\* A type as a code literal: wrapped in backticks, a backtick it already
\* begins or ends with counting as the wrapping one.
CodeLiterals(type) ==
    {Wrapped(type)}
    \cup (IF type # <<>> /\ Head(type) = BQ THEN {type \o <<BQ>>} ELSE {})
    \cup (IF type # <<>> /\ type[Len(type)] = BQ THEN {<<BQ>> \o type} ELSE {})
    \cup (IF IsBookended(type) THEN {type} ELSE {})

\* The document has one 'Returns' header with a content line beneath it and
\* one 'Return type' header with a type line beneath it.
HasReturnsAndType(ls) ==
    LET r == TheLine(ls, RETURNS_LINE)
        t == TheLine(ls, RETURN_TYPE_LINE)
    IN  /\ r # 0 /\ t # 0
        /\ Beneath(ls, r) # 0 /\ ~IsHeader(ls[Beneath(ls, r)])
        /\ Beneath(ls, t) # 0 /\ ~IsHeader(ls[Beneath(ls, t)])

\* out is ls with the 'Return type' header and the lines down to its type
\* line deleted and the 'Returns' content line rewritten to
\* '<indentation>`<type>` – <content><line ending>'; no other line is changed.
TypeMergedIntoReturns(ls, out) ==
    LET r == TheLine(ls, RETURNS_LINE)
        t == TheLine(ls, RETURN_TYPE_LINE)
        c == Beneath(ls, r)
        y == Beneath(ls, t)
        kept == {k \in 1..Len(ls) : k < t \/ k > y}
        rank(k) == Cardinality({m \in kept : m <= k})
    IN  /\ Len(out) = Cardinality(kept)
        /\ \A k \in kept \ {c} : out[rank(k)] = ls[k]
        /\ \E literal \in CodeLiterals(Text(ls[y])) :
              out[rank(c)] = Indentation(ls[c]) \o literal \o DASH_DELIMITER
                             \o Text(ls[c]) \o LineEnding(ls[c])
        /\ Count(out, RETURN_TYPE_LINE) = 0

\* C4 (as claimed): for every document with a 'Returns' header that has a
\* content line beneath it and a 'Return type' header that has a type line
\* beneath it, the return-fusion stage deletes the 'Return type' header with
\* its type line, so that no 'Return type' line remains, and rewrites the
\* 'Returns' content line to '`<type>` – <content>', indentation and line
\* ending kept; no other line is changed.
C4_TypeMergedIntoReturns ==
    done = "returns" /\ HasReturnsAndType(stageIn) =>
        /\ raised = "none" /\ pc = "fence"
        /\ TypeMergedIntoReturns(stageIn, lines)

\* The 'Returns' header comes before the 'Return type' header, and the type
\* line ends with a line break.
ReturnsFirst(ls) ==
    /\ TheLine(ls, RETURNS_LINE) < TheLine(ls, RETURN_TYPE_LINE)
    /\ LineEnding(ls[Beneath(ls, TheLine(ls, RETURN_TYPE_LINE))]) = <<NL>>

\* What the stage does for the documents of C4 whose 'Returns' header comes
\* first and whose type line ends with a line break: the merge as claimed.
C4_MergedWhenReturnsFirst ==
    done = "returns" /\ HasReturnsAndType(stageIn) /\ ReturnsFirst(stageIn) =>
        /\ raised = "none" /\ pc = "fence"
        /\ TypeMergedIntoReturns(stageIn, lines)

\* The 'Returns' header has only blank lines beneath it up to the 'Return
\* type' header, and that header has a type line beneath it.
HasTypeOnly(ls) ==
    LET r == TheLine(ls, RETURNS_LINE)
        t == TheLine(ls, RETURN_TYPE_LINE)
    IN  /\ r # 0 /\ t # 0 /\ r < t
        /\ \A k \in (r + 1)..(t - 1) : IsSpace(ls[k])
        /\ Beneath(ls, t) # 0

\* out has a single 'Returns' header, whose content is the type of ls as a
\* code literal, and no 'Return type' header.
TypeIsReturnsContent(ls, out) ==
    LET type == Text(ls[Beneath(ls, TheLine(ls, RETURN_TYPE_LINE))])
        r == TheLine(out, RETURNS_LINE)
    IN  /\ Count(out, RETURNS_LINE) = 1
        /\ Count(out, RETURN_TYPE_LINE) = 0
        /\ Beneath(out, r) # 0
        /\ Text(out[Beneath(out, r)]) \in CodeLiterals(type)

\* C5 (as claimed): for every document whose 'Returns' header has only blank
\* lines beneath it up to the 'Return type' header, which has a type line
\* beneath it, the return-fusion stage leaves a single 'Returns' header whose
\* content is the type wrapped in backticks, and no 'Return type' header.
C5_TypeBecomesReturnsContent ==
    done = "returns" /\ HasTypeOnly(stageIn) =>
        /\ raised = "none" /\ pc = "fence"
        /\ TypeIsReturnsContent(stageIn, lines)

\* What the stage does for the documents of C5 whose type line ends with a
\* line break: the result as claimed, every line outside the deleted ones kept.
C5_KeptWhenTerminated ==
    done = "returns" /\ HasTypeOnly(stageIn)
    /\ LineEnding(stageIn[Beneath(stageIn, TheLine(stageIn, RETURN_TYPE_LINE))]) = <<NL>> =>
        /\ raised = "none" /\ pc = "fence"
        /\ TypeIsReturnsContent(stageIn, lines)
        /\ Len(lines) = Len(stageIn) - (TheLine(stageIn, RETURN_TYPE_LINE)
                                         - TheLine(stageIn, RETURNS_LINE))

\* The type line is the last line of the file and has no line break: the
\* assertion on the match of the line fails.
C5_UnterminatedTypeRaises ==
    done = "returns" /\ HasTypeOnly(stageIn)
    /\ LineEnding(stageIn[Beneath(stageIn, TheLine(stageIn, RETURN_TYPE_LINE))]) = <<>> =>
        raised = "AssertionError" /\ pc = "raised"

(***************************************************************************)
(* The image stage, over documents with an image line '![image](<link>)'   *)
(* whose link is made of a few characters.                                 *)
(***************************************************************************)
MaxLinkLen == 3
LINK_CHARS == {"\\", ".", "/", "a"}
ICON_LINK == <<".", "/", "i", "c", "o", "n", ".", "p", "n", "g">>
ICON_URL == WIKI_URL \o <<"i", "c", "o", "n", ".", "p", "n", "g">>
LINKS == SeqsUpTo(LINK_CHARS, MaxLinkLen) \cup {ICON_LINK}

ImageLine(link) == IMAGE_OPEN \o link \o <<")", NL>>
ImageBodies ==
    UNION {{<<ImageLine(link)>>, <<TEXT_LINE, ImageLine(link)>>,
            <<ImageLine(link), ImageLine(<<"a">>)>>} : link \in LINKS}

InitImage == InitMarkdown(BodyDirectories(ImageBodies, GOOD_FILE))
SpecImage == InitImage /\ [][NextMarkdown]_vars

\* The links that make a line an image line: line is '![image](<link>)'.
LinksOf(line) == {link \in LINKS \cup {<<"a">>} : line = ImageLine(link)}

\* The embed directive for a link.
Embed(link) == <<"[", "[">> \o link \o IMAGE_WIDTH

\* The link without its leading marker, a backslash or './'.
Unmarked(link) ==
    IF StartsWith(link, <<"\\">>) THEN SubSeq(link, 2, Len(link))
    ELSE IF StartsWith(link, <<".", "/">>) THEN SubSeq(link, 3, Len(link))
    ELSE link
IsMarked(link) == Unmarked(link) # link

\* C10 (as claimed): the image stage replaces every line '![image](<link>)'
\* by '[[<new link> | width = 100000px]]'; for a link that starts with a
\* backslash or with './' the new link is the wiki URL followed by the link
\* without that marker, so that './icon.png' gives
\* 'https://github.com/gmplot/gmplot/wiki/icon.png'; every other link is kept.
C10_MarkerRemoved ==
    done = "image" =>
        /\ raised = "none" /\ Len(lines) = Len(stageIn)
        /\ \A i \in 1..Len(stageIn) : \A link \in LinksOf(stageIn[i]) :
              /\ lines[i] = Embed(IF IsMarked(link) THEN WIKI_URL \o Unmarked(link) ELSE link)
              /\ link = ICON_LINK => lines[i] = Embed(ICON_URL)

\* What the stage does: a link that starts with a backslash or with './' loses
\* its first character only, so that './icon.png' gives
\* 'https://github.com/gmplot/gmplot/wiki//icon.png'.
C10_FirstCharacterRemoved ==
    done = "image" =>
        /\ raised = "none" /\ Len(lines) = Len(stageIn)
        /\ \A i \in 1..Len(stageIn) :
              IF LinksOf(stageIn[i]) = {} THEN lines[i] = stageIn[i]
              ELSE \A link \in LinksOf(stageIn[i]) :
                      lines[i] = Embed(IF IsMarked(link)
                                       THEN WIKI_URL \o SubSeq(link, 2, Len(link))
                                       ELSE link)

(***************************************************************************)
(* _write_to_sidebar                                                       *)
(***************************************************************************)
INDENT_LEVEL == 4

RECURSIVE Repeat(_, _)
Repeat(string, n) == IF n <= 0 THEN <<>> ELSE string \o Repeat(string, n - 1)

INDENT == Repeat(<<" ">>, INDENT_LEVEL)

\* The text written to the _Sidebar file for an item with a link.
WriteToSidebar(name, link, depth) ==
    LET link_content == IF name # link THEN name \o <<"|">> \o link ELSE name
        formatted_link == <<"[", "[">> \o link_content \o <<"]", "]">>
    IN  (IF depth = 0
         THEN Bookend(formatted_link, <<"*", "*">>) \o <<NL>>
         ELSE Repeat(INDENT, depth - 1) \o <<"*", " ">> \o formatted_link)
        \o <<NL>>

(***************************************************************************)
(* _GenerateDocFiles as a state machine: one step per iteration of a for   *)
(* loop of _recurse, per return of _recurse and per call and return of     *)
(* __call__.  The items are Python functions and classes and objects of    *)
(* other kinds, in their bound form; each has a __dict__.                  *)
(***************************************************************************)
SOURCE_EXT == <<".", "r", "s", "t">>
ORPHAN == <<":", "o", "r", "p", "h", "a", "n", ":", "\n", "\n">>
AUTOMETHOD == <<"a", "u", "t", "o", "m", "e", "t", "h", "o", "d">>
AUTOCLASS == <<"a", "u", "t", "o", "c", "l", "a", "s", "s">>
DOC_DIRECTORY == <<"d">>

\* element.__dict__.items(): the items of an element, in order.
RECURSIVE ItemsFrom(_, _, _)
ItemsFrom(tree, element, i) ==
    IF i > Len(tree.parent) THEN <<>>
    ELSE (IF tree.parent[i] = element THEN <<i>> ELSE <<>>) \o ItemsFrom(tree, element, i + 1)
DictItems(tree, element) == ItemsFrom(tree, element, 1)

\* A call of _recurse: its arguments and what is left of its for loop.
Frame(element, ancestry, items) ==
    [element |-> element, ancestry |-> ancestry, items |-> items]

Top == stack[Len(stack)]
Current == Head(Top.items)
Item == module.items[Current]
NewAncestry == Append(Top.ancestry, Item.name)
FullName == Join(NewAncestry, <<".">>)
StubPath(full_name) == DOC_DIRECTORY \o <<"/">> \o full_name \o SOURCE_EXT
StubContent(doc_type, full_name) ==
    ORPHAN \o <<".", ".", " ">> \o doc_type \o <<":", ":", " ">>
           \o module.name \o <<":", ":">> \o full_name \o <<NL>>

\* The for loop comes to its next item.
NextItem ==
    /\ wpc = "running" /\ stack # <<>> /\ Top.items # <<>>
    /\ visited' = Append(visited, Current)
    /\ UNCHANGED <<module, wpc>>
Continue == stack' = [stack EXCEPT ![Len(stack)].items = Tail(@)]

\* self._recurse(self.module, [])
Call ==
    /\ wpc = "constructed"
    /\ wpc' = "running"
    /\ stack' = <<Frame(0, <<>>, DictItems(module, 0))>>
    /\ UNCHANGED <<module, stubs, sidebar, unsupported, visited>>

SkipPrivate ==
    /\ NextItem
    /\ Item.name[1] = "_"
    /\ Continue
    /\ UNCHANGED <<stubs, sidebar, unsupported>>

SkipUndocumented ==
    /\ NextItem
    /\ Item.name[1] # "_" /\ ~Item.doc
    /\ Continue
    /\ UNCHANGED <<stubs, sidebar, unsupported>>

WarnUnsupported ==
    /\ NextItem
    /\ Item.name[1] # "_" /\ Item.doc /\ Item.kind \notin {"routine", "class"}
    /\ unsupported' = Append(unsupported, FullName)
    /\ Continue
    /\ UNCHANGED <<stubs, sidebar>>

\* A stub whose sidebar entry is one level too deep.
GenerateDocTooDeep ==
    /\ NextItem
    /\ Item.name[1] # "_" /\ Item.doc /\ Item.kind \in {"routine", "class"}
    /\ stubs' = Append(stubs,
            [path |-> StubPath(FullName),
             content |-> StubContent(IF Item.kind = "routine" THEN AUTOMETHOD ELSE AUTOCLASS,
                                     FullName)])
    /\ sidebar' = Append(sidebar,
            [name |-> Item.name, link |-> FullName, depth |-> Len(NewAncestry),
             text |-> WriteToSidebar(Item.name, FullName, Len(NewAncestry))])
    /\ stack' = Append([stack EXCEPT ![Len(stack)].items = Tail(@)],
                       Frame(Current, NewAncestry, DictItems(module, Current)))
    /\ UNCHANGED unsupported

\* The source file is written, the link added to the sidebar, and _recurse
\* called on the item.
GenerateDoc ==
    /\ NextItem
    /\ Item.name[1] # "_" /\ Item.doc /\ Item.kind \in {"routine", "class"}
    /\ stubs' = Append(stubs,
            [path |-> StubPath(FullName),
             content |-> StubContent(IF Item.kind = "routine" THEN AUTOMETHOD ELSE AUTOCLASS,
                                     FullName)])
    /\ sidebar' = Append(sidebar,
            [name |-> Item.name, link |-> FullName, depth |-> Len(Top.ancestry),
             text |-> WriteToSidebar(Item.name, FullName, Len(Top.ancestry))])
    /\ stack' = Append([stack EXCEPT ![Len(stack)].items = Tail(@)],
                       Frame(Current, NewAncestry, DictItems(module, Current)))
    /\ UNCHANGED unsupported

\* The for loop of a call of _recurse is over.
EndRecurse ==
    /\ wpc = "running" /\ stack # <<>> /\ Top.items = <<>>
    /\ stack' = SubSeq(stack, 1, Len(stack) - 1)
    /\ UNCHANGED <<module, stubs, sidebar, unsupported, visited, wpc>>

\* return self.source_ext
ReturnSourceExt ==
    /\ wpc = "running" /\ stack = <<>>
    /\ wpc' = "returned"
    /\ UNCHANGED <<module, stack, stubs, sidebar, unsupported, visited>>

NextWalk ==
    /\ \/ Call
       \/ SkipPrivate
       \/ SkipUndocumented
       \/ WarnUnsupported
       \/ GenerateDoc
       \/ EndRecurse
       \/ ReturnSourceExt
    /\ UNCHANGED <<mdVars, textVars>>

(***************************************************************************)
(* The walk, over every module of a few items.                             *)
(***************************************************************************)
MaxItems == 3
DIGITS == <<"1", "2", "3", "4", "5", "6", "7", "8", "9">>
CATEGORIES == {"routine", "class", "private", "undocumented", "other"}

\* Item i of a category: a documented function, a documented class, a
\* documented class with a private name, a class without a docstring, or a
\* documented object that is neither a routine nor a class.
Attribute(i, category) ==
    [name |-> (IF category = "private" THEN <<"_">> ELSE <<>>) \o <<"n", "_", DIGITS[i]>>,
     doc  |-> category # "undocumented",
     kind |-> IF category \in {"routine", "other"} THEN category ELSE "class"]

RECURSIVE Attributes(_, _)
Attributes(categories, i) ==
    IF i > Len(categories) THEN <<>>
    ELSE <<Attribute(i, categories[i])>> \o Attributes(categories, i + 1)

\* The trees of n items: the parent of an item is the module or an item
\* with a lower number.
Trees(n) == {p \in SeqsUpTo(0..(n - 1), n) : Len(p) = n /\ \A i \in 1..n : p[i] < i}

Modules ==
    UNION {{[name |-> <<"m">>, parent |-> p, items |-> Attributes(c, 1)] :
                p \in Trees(n), c \in {q \in SeqsUpTo(CATEGORIES, n) : Len(q) = n}} :
           n \in 0..MaxItems}

InitWalk ==
    /\ IdleMarkdown /\ IdleText
    /\ module \in Modules
    /\ stack = <<>> /\ stubs = <<>> /\ sidebar = <<>> /\ unsupported = <<>>
    /\ visited = <<>> /\ wpc = "constructed"

\* The functor is sequential code: a step that can be taken is taken.
SpecWalk == InitWalk /\ [][NextWalk]_vars /\ WF_vars(NextWalk)

\* The items from the module down to item i.
RECURSIVE PathTo(_, _)
PathTo(tree, i) ==
    IF tree.parent[i] = 0 THEN <<i>> ELSE Append(PathTo(tree, tree.parent[i]), i)
AncestorsOf(tree, i) == {PathTo(tree, i)[k] : k \in 1..(Len(PathTo(tree, i)) - 1)}

RECURSIVE NamesAlong(_, _)
NamesAlong(tree, path) ==
    IF path = <<>> THEN <<>> ELSE <<tree.items[path[1]].name>> \o NamesAlong(tree, Tail(path))
QualifiedName(tree, i) == Join(NamesAlong(tree, PathTo(tree, i)), <<".">>)

Documentable(item) ==
    Head(item.name) # "_" /\ item.doc /\ item.kind \in {"routine", "class"}

\* The items reached through documentable items only, themselves documentable.
Reached(tree) ==
    {i \in 1..Len(tree.parent) :
        Documentable(tree.items[i]) /\ \A a \in AncestorsOf(tree, i) : Documentable(tree.items[a])}

\* Depth-first pre-order: an item comes before its descendants, and the
\* descendants of an item before those of its later siblings.
Before(tree, i, j) ==
    LET a == PathTo(tree, i)
        b == PathTo(tree, j)
    IN  \/ Len(a) < Len(b) /\ SubSeq(b, 1, Len(a)) = a
        \/ \E k \in 1..Len(a) :
              /\ k <= Len(b) /\ a[k] < b[k]
              /\ SubSeq(a, 1, k - 1) = SubSeq(b, 1, k - 1)

\* The item an entry or a stub is for; 0 if there is none.
ItemNamed(tree, full_name) ==
    LET named == {i \in 1..Len(tree.parent) : QualifiedName(tree, i) = full_name}
    IN  IF named = {} THEN 0 ELSE CHOOSE i \in named : TRUE

\* What has been written so far: a stub and an entry for reached items only,
\* one of each at most for an item, in pre-order, the entry with the number
\* of the item's ancestors as its depth; and no for loop has come to an item
\* of an element that is not reached.
WalkedSoFar ==
    /\ Len(stubs) = Len(sidebar)
    /\ \A k \in 1..Len(sidebar) :
          LET i == ItemNamed(module, sidebar[k].link)
          IN  /\ i \in Reached(module)
              /\ sidebar[k].name = module.items[i].name
              /\ sidebar[k].depth = Cardinality(AncestorsOf(module, i))
              /\ stubs[k].path = StubPath(QualifiedName(module, i))
              /\ stubs[k].content =
                    StubContent(IF module.items[i].kind = "routine"
                                THEN AUTOMETHOD ELSE AUTOCLASS, QualifiedName(module, i))
    /\ \A k, l \in 1..Len(sidebar) :
          k < l => Before(module, ItemNamed(module, sidebar[k].link),
                                  ItemNamed(module, sidebar[l].link))
    /\ \A k \in 1..Len(visited) :
          module.parent[visited[k]] = 0 \/ module.parent[visited[k]] \in Reached(module)

\* At the return every reached item has its stub and its entry.
AllWalked ==
    wpc = "returned" =>
        {ItemNamed(module, sidebar[k].link) : k \in 1..Len(sidebar)} = Reached(module)

DIGITS_FROM_ZERO == <<"0", "1", "2", "3", "4", "5", "6", "7", "8", "9">>
LATLNG_OPEN == <<"n", "e", "w", " ", "g", "o", "o", "g", "l", "e", ".", "m", "a", "p", "s", ".", "L", "a", "t", "L", "n", "g", "(">>
BASE64_ALPHABET ==
    <<"A", "B", "C", "D", "E", "F", "G", "H", "I", "J", "K", "L", "M", "N", "O", "P",
      "Q", "R", "S", "T", "U", "V", "W", "X", "Y", "Z", "a", "b", "c", "d", "e", "f",
      "g", "h", "i", "j", "k", "l", "m", "n", "o", "p", "q", "r", "s", "t", "u", "v",
      "w", "x", "y", "z", "0", "1", "2", "3", "4", "5", "6", "7", "8", "9", "+", "/">>
DATA_URL == <<"d", "a", "t", "a", ":", "i", "m", "a", "g", "e", "/", "p", "n", "g", ";", "b", "a", "s", "e", "6", "4", ",">>
MARKER_OPEN == <<"n", "e", "w", " ", "g", "o", "o", "g", "l", "e", ".", "m", "a", "p", "s", ".", "M", "a", "r", "k", "e", "r", "(", "{">>
LABEL_OPEN == <<"l", "a", "b", "e", "l", ":", " ", "{">>
TEXT_OPEN == <<"t", "e", "x", "t", ":", " ", "\"">>
COLOR_OPEN == <<"c", "o", "l", "o", "r", ":", " ", "\"">>
FONT_WEIGHT == <<"f", "o", "n", "t", "W", "e", "i", "g", "h", "t", ":", " ", "\"", "b", "o", "l", "d", "\"">>
ICON_OPEN == <<"i", "c", "o", "n", ":", " ", "\"">>
POSITION_OPEN == <<"p", "o", "s", "i", "t", "i", "o", "n", ":", " ">>
MAP_LINE == <<"m", "a", "p", ":", " ", "m", "a", "p">>

\* The decimal digits of a natural number.
RECURSIVE Decimal(_)
Decimal(n) ==
    IF n < 10 THEN <<DIGITS_FROM_ZERO[n + 1]>>
    ELSE Decimal(n \div 10) \o <<DIGITS_FROM_ZERO[(n % 10) + 1]>>

\* '%.*f' % (precision, value) for a whole number of degrees.
FixedPoint(value, precision) ==
    (IF value < 0 THEN <<"-">> \o Decimal(0 - value) ELSE Decimal(value))
    \o (IF precision > 0 THEN <<".">> \o Repeat(<<"0">>, precision) ELSE <<>>)

FormatLatLng(lat, lng, precision) ==
    LATLNG_OPEN \o FixedPoint(lat, precision) \o <<",", " ">>
                \o FixedPoint(lng, precision) \o <<")">>

\* base64.b64encode of at most three bytes: four characters, '=' for the
\* missing bytes.
Base64Group(bytes) ==
    LET n == Len(bytes)
        v == bytes[1] * 65536 + (IF n >= 2 THEN bytes[2] * 256 ELSE 0)
                              + (IF n >= 3 THEN bytes[3] ELSE 0)
    IN  <<BASE64_ALPHABET[(v \div 262144) + 1], BASE64_ALPHABET[((v \div 4096) % 64) + 1]>>
        \o (IF n >= 2 THEN <<BASE64_ALPHABET[((v \div 64) % 64) + 1]>> ELSE <<"=">>)
        \o (IF n >= 3 THEN <<BASE64_ALPHABET[(v % 64) + 1]>> ELSE <<"=">>)

RECURSIVE Base64Encode(_)
Base64Encode(bytes) ==
    IF bytes = <<>> THEN <<>>
    ELSE IF Len(bytes) <= 3 THEN Base64Group(bytes)
    ELSE Base64Group(SubSeq(bytes, 1, 3)) \o Base64Encode(SubSeq(bytes, 4, Len(bytes)))

\* The image file read as bytes, as a base64 image URL.
GetEmbeddableImage(bytes) == DATA_URL \o Base64Encode(bytes)

(***************************************************************************)
(* _Text: __init__ and write(), one step per statement of write().         *)
(***************************************************************************)
\* The object after __init__; color is kwargs.get('color'), None without one.
TextObject(lat, lng, text, precision, color, image) ==
    [position |-> FormatLatLng(lat, lng, precision),
     text     |-> text,
     color    |-> color,
     icon     |-> GetEmbeddableImage(image)]

\* The calls on the writer.
Write(content) == [call |-> "write", content |-> content]
Indent == [call |-> "indent", content |-> <<>>]
Dedent == [call |-> "dedent", content |-> <<>>]

\* The statement at a line calls the writer and write() goes on to a line.
Statement(at, call, next) ==
    /\ tpc = at
    /\ calls' = Append(calls, call)
    /\ tpc' = next
    /\ UNCHANGED self

OpenMarker == Statement(29, Write(MARKER_OPEN), 30)
IndentMarker == Statement(30, Indent, 31)
OpenLabel == Statement(31, Write(LABEL_OPEN), 32)
IndentLabel == Statement(32, Indent, 33)
WriteLabelText == Statement(33, Write(TEXT_OPEN \o self.text \o <<"\"", ",">>), 34)
WriteLabelColor ==
    /\ self.color # None
    /\ Statement(34, Write(COLOR_OPEN \o self.color.val \o <<"\"", ",">>), 35)
NoLabelColor ==
    /\ tpc = 34 /\ self.color = None
    /\ tpc' = 35
    /\ UNCHANGED <<self, calls>>
WriteFontWeight == Statement(35, Write(FONT_WEIGHT), 36)
DedentLabel == Statement(36, Dedent, 37)
CloseLabel == Statement(37, Write(<<"}", ",">>), 38)
WriteIcon == Statement(38, Write(ICON_OPEN \o self.icon \o <<"\"", ",">>), 39)
WritePosition == Statement(39, Write(POSITION_OPEN \o self.position \o <<",">>), 40)
WriteMap == Statement(40, Write(MAP_LINE), 41)
\* write() without its last dedent.
NoDedentMarker == tpc = 41 /\ tpc' = 42 /\ UNCHANGED <<self, calls>>
DedentMarker == Statement(41, Dedent, 42)
CloseMarker == Statement(42, Write(<<"}", ")", ";">>), 43)
WriteBlank == Statement(43, Write(<<>>), 44)

NextText ==
    /\ \/ OpenMarker
       \/ IndentMarker
       \/ OpenLabel
       \/ IndentLabel
       \/ WriteLabelText
       \/ WriteLabelColor
       \/ NoLabelColor
       \/ WriteFontWeight
       \/ DedentLabel
       \/ CloseLabel
       \/ WriteIcon
       \/ WritePosition
       \/ WriteMap
       \/ DedentMarker
       \/ CloseMarker
       \/ WriteBlank
    /\ UNCHANGED <<mdVars, walkVars>>

(***************************************************************************)
(* write() on every label of a few coordinates, texts, colors and images.  *)
(***************************************************************************)
MaxPrecision == 2
COORDINATES == {0 - 12, 0, 7}
TEXTS == {<<>>, <<"H", "i">>, <<"\"", "A", "\\">>}
COLORS == {None, Value(<<"#", "f", "0", "0">>), Value(<<"\"">>)}
IMAGES == {<<>>, <<77>>, <<77, 97, 110, 137>>}

InitText ==
    /\ IdleMarkdown /\ IdleWalk
    /\ self \in {TextObject(lat, lng, text, precision, color, image) :
                    lat \in COORDINATES, lng \in {0, 7}, text \in TEXTS,
                    precision \in 0..MaxPrecision, color \in COLORS, image \in IMAGES}
    /\ calls = <<>>
    /\ tpc = 29

SpecText == InitText /\ [][NextText]_vars

\* The calls of a kind among the first n.
CallsUpTo(n, kind) == Cardinality({k \in 1..n : calls[k].call = kind})
\* The writer's level after the first n calls, above its level before
\* write(): an indent raises it by one and a dedent lowers it by one.
LevelAfter(n) == CallsUpTo(n, "indent") - CallsUpTo(n, "dedent")
\* The contents written, in order.
RECURSIVE ContentsOf(_)
ContentsOf(cs) ==
    IF cs = <<>> THEN <<>>
    ELSE (IF cs[1].call = "write" THEN <<cs[1].content>> ELSE <<>>) \o ContentsOf(Tail(cs))

\* C9: write() writes the marker opening, the label opening, the text line
\* with the text as it is, a color line if and only if a color was given, the
\* bold font-weight line, the label closing, the icon, position and map
\* lines, the marker closing and a blank line, in this order; it calls indent
\* twice and dedent twice, properly nested, and leaves the writer's level as
\* it was, with or without a color.
C9_WriteEmitsMarker ==
    /\ \A n \in 0..Len(calls) : LevelAfter(n) \in 0..2
    /\ tpc = 44 =>
         /\ ContentsOf(calls) =
               <<MARKER_OPEN, LABEL_OPEN, TEXT_OPEN \o self.text \o <<"\"", ",">>>>
               \o (IF self.color # None
                   THEN <<COLOR_OPEN \o self.color.val \o <<"\"", ",">>>>
                   ELSE <<>>)
               \o <<FONT_WEIGHT, <<"}", ",">>,
                    ICON_OPEN \o self.icon \o <<"\"", ",">>,
                    POSITION_OPEN \o self.position \o <<",">>,
                    MAP_LINE, <<"}", ")", ";">>, <<>>>>
         /\ CallsUpTo(Len(calls), "indent") = 2
         /\ CallsUpTo(Len(calls), "dedent") = 2
         /\ LevelAfter(Len(calls)) = 0

\* write() is over for a label with a color and a text that holds a quote and
\* a backslash: both are in the text line as they are.
C9_Witness ==
    /\ tpc = 44
    /\ self.color = Value(<<"#", "f", "0", "0">>)
    /\ self.text = <<"\"", "A", "\\">>
    /\ Len(calls) = 15
    /\ calls[5].content = TEXT_OPEN \o <<"\"", "A", "\\", "\"", ",">>
    /\ calls[6].content = COLOR_OPEN \o <<"#", "f", "0", "0", "\"", ",">>

(***************************************************************************)
(* _pretty_format_markdown called a second time on the same directory,     *)
(* over documents with a signature header made of a few parts.             *)
(***************************************************************************)
\* The function is called again once a call has returned or raised.
RunAgain ==
    /\ run = 1 /\ pc \in {"done", "raised"}
    /\ run' = 2
    /\ first' = [files |-> files, written |-> written]
    /\ fileIdx' = 1
    /\ pc' = "read"
    /\ lines' = <<>>
    /\ raised' = "none"
    /\ written' = {}
    /\ done' = "call"
    /\ UNCHANGED <<files, warnings, orig, stageIn>>

NextTwice ==
    \/ NextMarkdown
    \/ RunAgain /\ UNCHANGED <<walkVars, textVars>>

MaxHeaderLevel == 2
HEADER_ANNOTATIONS == {<<>>, <<"c", " ">>, <<"_", "c", "_", " ">>, <<"#", " ">>, <<"_", " ">>}
HEADER_SCOPES == {<<>>, <<"m">>, <<"#">>, CODE_BLOCK_SYMBOL, <<"a", ".", "b">>}
HEADER_NAMES == {<<>>, <<"f">>, <<"*", "*", "f", "*", "*">>, <<"#">>}
HEADER_PARAMETERS ==
    {<<>>, <<"a">>, <<"_", "a", "_">>, <<"(", ")">>, <<"#", " ", "(">>,
     <<"a", " ", "(", "b", ")">> \o DASH_DELIMITER \o <<"c">>}

\* '<level> [annotation] <scope>.<name>(<parameters>)', and a few headers
\* that are not of this shape.
SignatureHeaders ==
    {Repeat(<<HEADER_CHARACTER>>, level) \o <<" ">> \o annotation \o scope \o <<".">> \o name
        \o <<"(">> \o parameters \o <<")">> :
        level \in 1..MaxHeaderLevel, annotation \in HEADER_ANNOTATIONS,
        scope \in HEADER_SCOPES, name \in HEADER_NAMES, parameters \in HEADER_PARAMETERS}
OTHER_HEADERS ==
    {<<>>, <<"(", ")">>, <<"m", ".", "f", "(", ")">>, <<"#", " ", "m", ".", "f">>}

TwiceDirectories ==
    {<<File(TRUE, <<header \o <<NL>>>> \o body), second>> :
        header \in SignatureHeaders \cup OTHER_HEADERS,
        body \in {<<TEXT_LINE>>, <<BARE_FENCE>>},
        second \in {GOOD_FILE, File(TRUE, <<BLANK_LINE>>)}}

InitTwice == InitMarkdown(TwiceDirectories)
SpecTwice == InitTwice /\ [][NextTwice]_vars

\* C11: the header a successful _pretty_format_signature_header returns is
\* itself a header on which the function returns None, without raising; and
\* in a second call of _pretty_format_markdown on the directory every file
\* the first call wrote is skipped with the header warning, is not written
\* again and stays as the first call left it, and the call does not raise on it.
C11_ReformattingIsOneWay ==
    /\ done = "header" /\ pc = "rule" =>
          PrettyFormatSignatureHeader(FirstLineHeader(lines)) = None
    /\ run = 2 =>
          /\ \A f \in first.written :
                /\ files[f] = first.files[f]
                /\ f \notin written
                /\ f < fileIdx => Warned(f, "header")
          /\ pc = "raised" => fileIdx \notin first.written

\* The second call is over: both files had been written by the first call,
\* the first with an annotation in its header, now in italics; both were
\* skipped and are as the first call left them.
C11_Witness ==
    /\ run = 2 /\ pc = "done"
    /\ first.written = {1, 2}
    /\ StartsWith(orig[1].content[1], <<"#", " ", "c", " ">>)
    /\ StartsWith(files[1].content[1], <<"_", "c", "_", " ">>)
    /\ files = first.files /\ files # orig
    /\ Warned(1, "header") /\ Warned(2, "header")

(***************************************************************************)
(* The HTML-retagging stage, over the documents of the code-fence stage.   *)
(***************************************************************************)
\* Line i is followed at once by a line of HTML output.
BeforeHtmlOutput(ls, i) == i < Len(ls) /\ StartsWith(ls[i + 1], HTML_OUTPUT)

\* C12 (as claimed): the HTML-retagging stage turns every opening fence that
\* a line beginning with '-> <html>' follows at once into '```html' and
\* changes no other line: an opening fence without such a line after it keeps
\* its '```python' tag, and a closing fence is never retagged, even when the
\* line after it begins with '-> <html>'.
C12_OnlyOpeningFencesRetagged ==
    done = "html" =>
        /\ raised = "none" /\ Len(lines) = Len(stageIn)
        /\ \A i \in 1..Len(stageIn) :
              /\ IsOpeningFence(stageIn, i) => stageIn[i] = PYTHON_FENCE
              /\ lines[i] = IF IsOpeningFence(stageIn, i) /\ BeforeHtmlOutput(stageIn, i)
                            THEN HTML_FENCE
                            ELSE stageIn[i]

\* What the stage does: every line that starts with ``` and that a line
\* beginning with '-> <html>' follows at once becomes '```html', a closing
\* fence as well as an opening one; no other line is changed.
C12_EveryFenceBeforeHtmlRetagged ==
    done = "html" =>
        /\ raised = "none" /\ Len(lines) = Len(stageIn)
        /\ \A i \in 1..Len(stageIn) :
              lines[i] = IF IsFence(stageIn[i]) /\ BeforeHtmlOutput(stageIn, i)
                         THEN HTML_FENCE
                         ELSE stageIn[i]

(***************************************************************************)
(* A run over a directory of documents with and without anomalies.         *)
(***************************************************************************)
DirectoryFiles == 2
INT_LINE == <<"i", "n", "t", NL>>
ANOMALY_FILES ==
    { GOOD_FILE,
      File(FALSE, <<TEXT_LINE>>),                                  \* no '.md' file
      File(TRUE, <<>>),                                            \* no content
      File(TRUE, <<BLANK_LINE, TEXT_LINE>>),                       \* a blank first line
      File(TRUE, <<<<"#", "#", " ", "a", ".", "b", NL>>>>),        \* no parentheses
      File(TRUE, <<GOOD_HEADER, OPTIONAL_LINE, TEXT_LINE, PARAMETERS_LINE>>),
      File(TRUE, <<GOOD_HEADER, OPTIONAL_LINE, BLANK_LINE, PARAMETERS_LINE>>),
      File(TRUE, <<GOOD_HEADER, BARE_FENCE, TEXT_LINE>>),          \* an open fence
      File(TRUE, <<GOOD_HEADER, RETURN_TYPE_LINE, INT_LINE>>),     \* no 'Returns'
      File(TRUE, <<GOOD_HEADER, RETURNS_LINE, TEXT_LINE, RETURN_TYPE_LINE, INT_LINE>>),
      File(TRUE, <<GOOD_HEADER, RETURNS_LINE, RETURN_TYPE_LINE>>), \* no type line
      File(TRUE, <<GOOD_HEADER, RETURNS_LINE, RETURN_TYPE_LINE, <<"i", "n", "t">>>>) }

InitDirectory ==
    InitMarkdown({d \in SeqsUpTo(ANOMALY_FILES, DirectoryFiles) : Len(d) = DirectoryFiles})

Init == InitDirectory
Next == NextMarkdown
Spec == Init /\ [][Next]_vars

HasLine(ls, line) == \E i \in 1..Len(ls) : ls[i] = line
WarnedAtAll(f) == \E k \in 1..Len(warnings) : warnings[k].file = f

\* C1 (as claimed): a run raises only on a document that has a 'Return type'
\* header and no 'Returns' header; a file that a warning was issued for is
\* skipped, that is never written; and a run that did not raise has written
\* or skipped with a warning every '.md' file that has content.
C1_OnlyReturnTypeRaises ==
    /\ raised # "none" =>
         /\ HasLine(orig[fileIdx].content, RETURN_TYPE_LINE)
         /\ ~HasLine(orig[fileIdx].content, RETURNS_LINE)
    /\ \A f \in 1..Len(files) : WarnedAtAll(f) => f \notin written /\ files[f] = orig[f]
    /\ pc = "done" =>
         \A f \in 1..Len(files) :
            orig[f].md /\ orig[f].content # <<>> => f \in written \/ WarnedAtAll(f)
====
